---- MODULE Spec2Model ----
(***************************************************************************)
(* Model of the orchestration core (src/agency_orchestrator.py) and of the *)
(* provider dispatch core (src/api_config.py, src/api_integrations.py) of  *)
(* perfect-fit-marketing.                                                  *)
(*                                                                         *)
(* The orchestrator is one control thread: a client either drives the      *)
(* object from the top level (run_manual_task, health_check, shutdown) or  *)
(* is inside start(), whose loop runs the due jobs of the schedule one     *)
(* after the other.  Orchestrator time (clock) is counted in hours, the    *)
(* unit of the interval jobs of setup_schedules.                           *)
(***************************************************************************)
EXTENDS Integers, Sequences, FiniteSets, TLC

(***************************************************************************)
(* Bounds of the model.                                                    *)
(***************************************************************************)
MaxTime == 4      \* orchestrator clock stops advancing here (hours)
MaxTasks == 1     \* task functions stop returning normally past this many completions
MaxErrors == 5    \* task functions stop raising past this error_count

MaxNow == 3       \* registry clock stops advancing here (units of 30 seconds)
MaxCalls == 3     \* dispatch calls made in one behaviour
MaxRecords == 2   \* record_request calls per provider made directly on the registry

(***************************************************************************)
(* Program constants.                                                      *)
(***************************************************************************)
max_error_threshold == 5

\* timedelta(minutes=1), in units of the registry clock.
MinuteUnits == 2

NoTime == -1      \* None in an Optional[datetime] field

\* The agents of initialize_agents kept by the model, in construction order
\* (which is also the order their jobs are registered by setup_schedules).
AgentNames == <<"lead_scoring", "customer_service">>

AgentSet == {AgentNames[i] : i \in 1..Len(AgentNames)}

\* schedule.every().hour.do(...): the interval of each agent's job, in hours.
Cadence == [lead_scoring |-> 1, customer_service |-> 1]

\* The agents run_manual_task has a branch for.
ManualAgents == {"lead_generation", "prospect_research", "lead_scoring",
                 "lead_qualification", "outreach_automation",
                 "sales_automation", "client_management"}

\* Names a client may pass to run_manual_task.
ManualInputs == AgentSet \cup {"no_such_agent"}

\* Provider names of the registry, in the order they are registered, with their
\* characters (get_available_api matches on substrings of the name).
ProviderNames == <<"email_a", "Email_b">>

ProviderSet == {ProviderNames[i] : i \in 1..Len(ProviderNames)}

Chars ==
    [email_a |-> <<"e", "m", "a", "i", "l", "_", "a">>,
     Email_b |-> <<"E", "m", "a", "i", "l", "_", "b">>,
     company_c |-> <<"c", "o", "m", "p", "a", "n", "y", "_", "c">>,
     email   |-> <<"e", "m", "a", "i", "l">>,
     company |-> <<"c", "o", "m", "p", "a", "n", "y">>]

\* The api_type of validate_email and of enrich_company (no provider of the
\* model serves the latter).
ApiTypes == {"email", "company"}

\* The threads that call the dispatch functions.
Callers == {"c1", "c2"}

\* HTTP status codes a response can carry, other than 200.
OtherStatusCodes == {204, 404, 500}

VARIABLES
    agents,              \* keys of self.agents: the agents that were constructed
    config_enabled,      \* self.config[name]['enabled']
    agent_status,        \* self.agent_status: name -> AgentStatus
    next_run,            \* next_run of each agent's schedule job
    clock,               \* datetime.now(), in hours since construction
    pending,             \* run_pending: the runnable jobs not yet run in this pass
    pc,                  \* position of the control thread
    cur,                 \* agent_name of the run_agent_task frame, "none" outside one
    mode,                \* caller of the frame: "sched", "manual" or "none"
    shutdown_requested,  \* self.shutdown_requested
    is_running,          \* self.is_running
    health,              \* outcome of the last health_check: "ok", "failed"; "none" before one
    manual_result,       \* last value returned by run_manual_task
    inflight,            \* ghost: run_agent_task frames per agent that have not returned
    fail_streak,         \* ghost: failures of the task function since its last normal return
    ret,                 \* what the frame is about to return: "result", "None"; "none" outside
    entry_status,        \* ghost: the agent's status when the current frame was entered
    entry_errors,        \* ghost: the agent's error_count at that moment
    entry_done,          \* ghost: its tasks_completed and last_success at that moment
    daily_metrics,       \* outcome of the last collect_daily_metrics: "stored", "failed"
    api_names,           \* keys of self.apis, in insertion order
    apis,                \* self.apis: name -> APIConfig
    usage,               \* self.usage: name -> APIUsage
    now,                 \* datetime.now() of the registry, in units of 30 seconds
    call,                \* per caller: position in its dispatch function and its api_config
    issued,              \* ghost: per provider, the times of the requests sent in the last minute
    issued_today,        \* ghost: per provider, requests sent since the last reset_daily_counters
    ncalls,              \* ghost: dispatch calls made so far
    routes,              \* ghost: the provider chosen by each logged dispatch call ("None": none)
    health_status        \* the dict the last get_api_health call returned (<<>> before one)

ovars == <<agents, config_enabled, agent_status, next_run, clock, pending, pc, cur,
           mode, shutdown_requested, is_running, health, manual_result, inflight,
           fail_streak, ret, entry_status, entry_errors, entry_done, daily_metrics>>

pvars == <<api_names, apis, usage, now, call, issued, issued_today, ncalls, routes,
           health_status>>

vars == <<ovars, pvars>>

(***************************************************************************)
(* Helpers.                                                                *)
(***************************************************************************)
\* Python's stable sort of a list by an integer key (key: element -> Int).
RECURSIVE InsertByKey(_, _, _)
InsertByKey(sorted, x, key) ==
    IF sorted = <<>> THEN <<x>>
    ELSE IF key[x] < key[Head(sorted)] THEN <<x>> \o sorted
    ELSE <<Head(sorted)>> \o InsertByKey(Tail(sorted), x, key)

RECURSIVE SortByKey(_, _)
SortByKey(s, key) ==
    IF s = <<>> THEN <<>>
    ELSE InsertByKey(SortByKey(SubSeq(s, 1, Len(s) - 1), key), s[Len(s)], key)

\* entry_done outside every frame.
NoEntry == [tasks_completed |-> 0, last_success |-> NoTime]

\* AgentStatus(name=name, status="idle")
NewAgentStatus == [status |-> "idle", last_run |-> NoTime, last_success |-> NoTime,
                   error_count |-> 0, tasks_completed |-> 0]

\* The sets initialize_agents can return: construction stops at the first failure.
AgentPrefixes == {{AgentNames[i] : i \in 1..n} : n \in 0..Len(AgentNames)}

OrchFresh ==
    /\ agents \in AgentPrefixes
    /\ config_enabled \in [AgentSet -> BOOLEAN]
    /\ agent_status = [a \in agents |-> NewAgentStatus]
    /\ next_run = [a \in AgentSet |-> Cadence[a]]
    /\ clock = 0
    /\ pending = <<>>
    /\ pc = "top"
    /\ cur = "none"
    /\ mode = "none"
    /\ shutdown_requested = FALSE
    /\ is_running = FALSE
    /\ health = "none"
    /\ manual_result = "none"
    /\ inflight = [a \in AgentSet |-> 0]
    /\ fail_streak = [a \in AgentSet |-> 0]
    /\ ret = "none"
    /\ entry_status = "none"
    /\ entry_errors = 0
    /\ entry_done = NoEntry
    /\ daily_metrics = "none"

\* A caller outside every dispatch function.
IdleCall == [pc |-> "idle", api |-> "None"]

\* APIUsage(api_name=name). window_start is a ghost field the class does not
\* have: the time of the record_request that last took requests_this_minute
\* from 0 to 1.
NewUsage == [requests_today |-> 0, requests_this_minute |-> 0, last_request_time |-> NoTime,
             total_requests |-> 0, errors_today |-> 0, last_error_time |-> NoTime,
             window_start |-> NoTime]

\* The registry left alone (the orchestrator specifications).
RegistryIdle ==
    /\ api_names = <<>>
    /\ apis = <<>>
    /\ usage = <<>>
    /\ now = 0
    /\ call = [c \in Callers |-> IdleCall]
    /\ issued = [n \in ProviderSet |-> <<>>]
    /\ issued_today = [n \in ProviderSet |-> 0]
    /\ ncalls = 0
    /\ routes = <<>>
    /\ health_status = <<>>

(***************************************************************************)
(* Orchestrator: health check and shutdown.                                *)
(***************************************************************************)
\* health_check: what its log line reports.  The SystemMetrics fields it writes
\* (system_uptime, error_rate) are read by no operation of the orchestration
\* core and are left out of the state; the outcome of the check is kept.
HealthCheckResult(store_ok) == IF store_ok THEN "ok" ELSE "failed"

\* collect_daily_metrics, lines 427-485: the counts are read and the row is
\* stored, or the except clause logs the sqlite3 error; it returns either way.
CollectDailyMetricsResult(store_ok) == IF store_ok THEN "stored" ELSE "failed"

\* shutdown: every "active" status becomes "idle".
ShutdownStatus ==
    [a \in agents |->
        IF agent_status[a].status = "active"
        THEN [agent_status[a] EXCEPT !.status = "idle"]
        ELSE agent_status[a]]

(***************************************************************************)
(* Orchestrator: run_agent_task, one action per group of statements.       *)
(***************************************************************************)
\* Lines 270-276: the frame is entered, status and last_run are written.
EnterTask(a, caller) ==
    /\ agent_status' = [agent_status EXCEPT ![a].status = "active", ![a].last_run = clock]
    /\ pc' = "l279"
    /\ cur' = a
    /\ mode' = caller
    /\ inflight' = [inflight EXCEPT ![a] = @ + 1]
    /\ entry_status' = agent_status[a].status
    /\ entry_errors' = agent_status[a].error_count
    /\ entry_done' = [tasks_completed |-> agent_status[a].tasks_completed,
                      last_success |-> agent_status[a].last_success]

\* Mutant: a job that has run is due one cadence after the slot it was due at.
NextRunFromSlot(a) == next_run[a] + Cadence[a]

\* run_pending reschedules a job whose function has returned: one cadence after
\* the moment it returned.
NextRunFromNow(a) == clock + Cadence[a]

\* run_agent_task returns to its caller (lines 294, 312): run_pending reschedules
\* the job, run_manual_task returns True.
ReturnFromTask ==
    /\ pc = "return"
    /\ inflight' = [inflight EXCEPT ![cur] = @ - 1]
    /\ cur' = "none"
    /\ mode' = "none"
    /\ ret' = "none"
    /\ entry_status' = "none"
    /\ entry_errors' = 0
    /\ entry_done' = NoEntry
    /\ IF mode = "sched"
       THEN /\ pc' = "run_pending"
            /\ next_run' = [next_run EXCEPT ![cur] = NextRunFromNow(cur)]
            /\ UNCHANGED manual_result
       ELSE /\ pc' = "top"
            /\ manual_result' = "True"
            /\ UNCHANGED next_run
    /\ UNCHANGED pvars
    /\ UNCHANGED <<agents, config_enabled, agent_status, clock, pending,
                   shutdown_requested, is_running, health, fail_streak, daily_metrics>>

\* Line 279: the task function runs for a while.
TaskTakesTime ==
    /\ pc = "l279"
    /\ clock < MaxTime
    /\ clock' = clock + 1
    /\ UNCHANGED pvars
    /\ UNCHANGED <<agents, config_enabled, agent_status, next_run, pending, pc, cur, mode,
                   shutdown_requested, is_running, health, manual_result, inflight,
                   fail_streak, ret, entry_status, entry_errors,
                   entry_done, daily_metrics>>

\* Line 279: the task function returns normally.
TaskReturns ==
    /\ pc = "l279"
    /\ agent_status[cur].tasks_completed < MaxTasks
    /\ pc' = "l283"
    /\ fail_streak' = [fail_streak EXCEPT ![cur] = 0]
    /\ UNCHANGED pvars
    /\ UNCHANGED <<agents, config_enabled, agent_status, next_run, clock, pending, cur,
                   mode, shutdown_requested, is_running, health, manual_result, inflight,
                   ret, entry_status, entry_errors,
                   entry_done, daily_metrics>>

\* Line 279: the task function raises an Exception.
TaskRaises ==
    /\ pc = "l279"
    /\ agent_status[cur].error_count < MaxErrors
    /\ pc' = "l298"
    /\ fail_streak' = [fail_streak EXCEPT ![cur] = @ + 1]
    /\ UNCHANGED pvars
    /\ UNCHANGED <<agents, config_enabled, agent_status, next_run, clock, pending, cur,
                   mode, shutdown_requested, is_running, health, manual_result, inflight,
                   ret, entry_status, entry_errors,
                   entry_done, daily_metrics>>

\* Line 279: KeyboardInterrupt while the task function runs.  It is no Exception,
\* so run_agent_task does not catch it.  Inside start() it reaches line 549:
\* shutdown() and break.  A manual run has no handler for it (main catches
\* Exception only) and the process ends.
TaskInterrupted ==
    /\ pc = "l279"
    /\ inflight' = [inflight EXCEPT ![cur] = @ - 1]
    /\ cur' = "none"
    /\ mode' = "none"
    /\ pending' = <<>>
    /\ IF mode = "sched"
       THEN /\ pc' = "top"
            /\ shutdown_requested' = TRUE
            /\ is_running' = FALSE
            /\ agent_status' = ShutdownStatus
            /\ \E store_ok \in BOOLEAN :
                  daily_metrics' = CollectDailyMetricsResult(store_ok)
       ELSE /\ pc' = "dead"
            /\ UNCHANGED <<shutdown_requested, is_running, agent_status, daily_metrics>>
    /\ entry_status' = "none"
    /\ entry_errors' = 0
    /\ entry_done' = NoEntry
    /\ UNCHANGED pvars
    /\ UNCHANGED <<agents, config_enabled, next_run, clock, health, manual_result,
                   fail_streak, ret>>

\* Lines 282-285.
SuccessUpdate ==
    /\ pc = "l283"
    /\ agent_status' = [agent_status EXCEPT ![cur].status = "idle",
                                            ![cur].last_success = clock,
                                            ![cur].tasks_completed = @ + 1]
    /\ pc' = "l286"
    /\ UNCHANGED pvars
    /\ UNCHANGED <<agents, config_enabled, next_run, clock, pending, cur, mode,
                   shutdown_requested, is_running, health, manual_result, inflight,
                   fail_streak, ret, entry_status, entry_errors,
                   entry_done, daily_metrics>>

\* Mutant: the reset of line 286 is left out.
ErrorCountOnSuccessKept(a) == agent_status[a].error_count

\* error_count after line 286.
ErrorCountOnSuccess(a) == 0

\* Lines 286-294: error_count is reset, the activity is logged, the frame returns.
SuccessReset ==
    /\ pc = "l286"
    /\ agent_status' = [agent_status EXCEPT ![cur].error_count = ErrorCountOnSuccess(cur)]
    /\ pc' = "return"
    /\ ret' = "result"
    /\ UNCHANGED pvars
    /\ UNCHANGED <<agents, config_enabled, next_run, clock, pending, cur, mode,
                   shutdown_requested, is_running, health, manual_result, inflight,
                   fail_streak, entry_status, entry_errors,
                   entry_done, daily_metrics>>

\* Mutant: the except clause leaves the status as the try block set it.
StatusOnExceptionKept == "active"

\* Line 298: self.agent_status[agent_name].status = "error"
StatusOnException == "error"

\* Lines 297-298.
ExceptStatus ==
    /\ pc = "l298"
    /\ agent_status' = [agent_status EXCEPT ![cur].status = StatusOnException]
    /\ pc' = "l299"
    /\ UNCHANGED pvars
    /\ UNCHANGED <<agents, config_enabled, next_run, clock, pending, cur, mode,
                   shutdown_requested, is_running, health, manual_result, inflight,
                   fail_streak, ret, entry_status, entry_errors,
                   entry_done, daily_metrics>>

\* Lines 299-305.
ExceptCount ==
    /\ pc = "l299"
    /\ agent_status' = [agent_status EXCEPT ![cur].error_count = @ + 1]
    /\ pc' = "l308"
    /\ UNCHANGED pvars
    /\ UNCHANGED <<agents, config_enabled, next_run, clock, pending, cur, mode,
                   shutdown_requested, is_running, health, manual_result, inflight,
                   fail_streak, ret, entry_status, entry_errors,
                   entry_done, daily_metrics>>

\* Mutant: reaching the threshold disables every agent.
DisabledStatusAll(a) ==
    [b \in DOMAIN agent_status |-> [agent_status[b] EXCEPT !.status = "disabled"]]

\* Line 309: self.agent_status[agent_name].status = "disabled"
DisabledStatus(a) == [agent_status EXCEPT ![a].status = "disabled"]

\* Lines 308-312: the agent is disabled at the threshold, the frame returns None.
ExceptDisable ==
    /\ pc = "l308"
    /\ agent_status' =
          IF agent_status[cur].error_count >= max_error_threshold
          THEN DisabledStatus(cur)
          ELSE agent_status
    /\ pc' = "return"
    /\ ret' = "None"
    /\ UNCHANGED pvars
    /\ UNCHANGED <<agents, config_enabled, next_run, clock, pending, cur, mode,
                   shutdown_requested, is_running, health, manual_result, inflight,
                   fail_streak, entry_status, entry_errors,
                   entry_done, daily_metrics>>

(***************************************************************************)
(* Orchestrator: the run_<agent> entry points, the schedule and start().   *)
(***************************************************************************)
\* Mutant: run_<agent> does not look at the configuration.
RunsTaskAnyConfig(a) == a \in agents

\* run_<agent>: the task runs iff the configuration enables the agent and the
\* agent object exists (lines 316-320 and the like).
RunsTask(a) == config_enabled[a] /\ a \in agents

\* schedule.run_pending: the jobs whose next_run has come, by next_run.
RunnableJobs ==
    SortByKey(SelectSeq(AgentNames, LAMBDA a : next_run[a] <= clock), next_run)

\* s with x put in at position i (0: in front).
InsertAt(s, i, x) == SubSeq(s, 1, i) \o <<x>> \o SubSeq(s, i + 1, Len(s))

\* start(), lines 538-542: is_running is set and the first health check runs.
Start ==
    /\ pc = "top"
    /\ is_running' = TRUE
    /\ \E store_ok \in BOOLEAN : health' = HealthCheckResult(store_ok)
    /\ pc' = "loop"
    /\ UNCHANGED pvars
    /\ UNCHANGED <<agents, config_enabled, agent_status, next_run, clock, pending, cur,
                   mode, shutdown_requested, manual_result, inflight, fail_streak,
                   ret, entry_status, entry_errors,
                   entry_done, daily_metrics>>

\* Line 545 with shutdown_requested set: start() returns.
LoopExit ==
    /\ pc = "loop"
    /\ shutdown_requested
    /\ pc' = "top"
    /\ UNCHANGED pvars
    /\ UNCHANGED <<agents, config_enabled, agent_status, next_run, clock, pending, cur,
                   mode, shutdown_requested, is_running, health, manual_result, inflight,
                   fail_streak, ret, entry_status, entry_errors,
                   entry_done, daily_metrics>>

\* Lines 545-547: run_pending collects the runnable jobs.  The health_check job
\* (every 5 minutes, below the clock's unit) may or may not be among them, at any
\* place of the order.
StartLoopIteration ==
    /\ pc = "loop"
    /\ ~shutdown_requested
    /\ \/ pending' = RunnableJobs
       \/ \E i \in 0..Len(RunnableJobs) : pending' = InsertAt(RunnableJobs, i, "health_check")
    /\ pc' = "run_pending"
    /\ UNCHANGED pvars
    /\ UNCHANGED <<agents, config_enabled, agent_status, next_run, clock, cur, mode,
                   shutdown_requested, is_running, health, manual_result, inflight,
                   fail_streak, ret, entry_status, entry_errors,
                   entry_done, daily_metrics>>

\* run_pending runs the health_check job.
RunHealthCheckJob ==
    /\ pc = "run_pending"
    /\ pending # <<>>
    /\ Head(pending) = "health_check"
    /\ pending' = Tail(pending)
    /\ \E store_ok \in BOOLEAN : health' = HealthCheckResult(store_ok)
    /\ UNCHANGED pvars
    /\ UNCHANGED <<agents, config_enabled, agent_status, next_run, clock, pc, cur, mode,
                   shutdown_requested, is_running, manual_result, inflight, fail_streak,
                   ret, entry_status, entry_errors,
                   entry_done, daily_metrics>>

\* run_pending runs an agent's job: run_<agent> enters run_agent_task.
RunAgentJob ==
    /\ pc = "run_pending"
    /\ pending # <<>>
    /\ Head(pending) \in AgentSet
    /\ RunsTask(Head(pending))
    /\ pending' = Tail(pending)
    /\ EnterTask(Head(pending), "sched")
    /\ UNCHANGED pvars
    /\ UNCHANGED <<agents, config_enabled, next_run, clock, shutdown_requested,
                   is_running, health, manual_result, fail_streak, ret, daily_metrics>>

\* run_pending runs an agent's job whose run_<agent> returns at once; the job is
\* rescheduled.
SkipAgentJob ==
    /\ pc = "run_pending"
    /\ pending # <<>>
    /\ Head(pending) \in AgentSet
    /\ ~RunsTask(Head(pending))
    /\ pending' = Tail(pending)
    /\ next_run' = [next_run EXCEPT ![Head(pending)] = NextRunFromNow(Head(pending))]
    /\ UNCHANGED pvars
    /\ UNCHANGED <<agents, config_enabled, agent_status, clock, pc, cur, mode,
                   shutdown_requested, is_running, health, manual_result, inflight,
                   fail_streak, ret, entry_status, entry_errors,
                   entry_done, daily_metrics>>

\* Lines 545-547 at 00:00: the collect_daily_metrics job is among the runnable
\* jobs, at any place of the order.
StartLoopIterationAtMidnight ==
    /\ pc = "loop"
    /\ ~shutdown_requested
    /\ \E i \in 0..Len(RunnableJobs) :
          pending' = InsertAt(RunnableJobs, i, "collect_daily_metrics")
    /\ pc' = "run_pending"
    /\ UNCHANGED pvars
    /\ UNCHANGED <<agents, config_enabled, agent_status, next_run, clock, cur, mode,
                   shutdown_requested, is_running, health, manual_result, inflight,
                   fail_streak, ret, entry_status, entry_errors, entry_done, daily_metrics>>

\* Mutant: a store failure in collect_daily_metrics reaches the handler of
\* line 553.
PcAfterMetricsUncaught(store_ok) == IF store_ok THEN "run_pending" ELSE "backoff"

\* Lines 484-485: the except clause logs, collect_daily_metrics returns and
\* run_pending goes on.
PcAfterMetrics(store_ok) == "run_pending"

\* run_pending runs the collect_daily_metrics job.
RunMetricsJob ==
    /\ pc = "run_pending"
    /\ pending # <<>>
    /\ Head(pending) = "collect_daily_metrics"
    /\ pending' = Tail(pending)
    /\ \E store_ok \in BOOLEAN :
          /\ daily_metrics' = CollectDailyMetricsResult(store_ok)
          /\ pc' = PcAfterMetrics(store_ok)
    /\ UNCHANGED pvars
    /\ UNCHANGED <<agents, config_enabled, agent_status, next_run, clock, cur, mode,
                   shutdown_requested, is_running, health, manual_result, inflight,
                   fail_streak, ret, entry_status, entry_errors, entry_done>>

\* Line 548: time.sleep(1); the hour may or may not turn meanwhile.
Sleep ==
    /\ pc = "run_pending"
    /\ pending = <<>>
    /\ \/ clock' = clock
       \/ clock < MaxTime /\ clock' = clock + 1
    /\ pc' = "loop"
    /\ UNCHANGED pvars
    /\ UNCHANGED <<agents, config_enabled, agent_status, next_run, pending, cur, mode,
                   shutdown_requested, is_running, health, manual_result, inflight,
                   fail_streak, ret, entry_status, entry_errors,
                   entry_done, daily_metrics>>

\* Lines 549-552: KeyboardInterrupt during the sleep: shutdown() and break.
InterruptDuringSleep ==
    /\ pc = "run_pending"
    /\ pending = <<>>
    /\ shutdown_requested' = TRUE
    /\ is_running' = FALSE
    /\ agent_status' = ShutdownStatus
    /\ pc' = "top"
    /\ UNCHANGED pvars
    /\ \E store_ok \in BOOLEAN : daily_metrics' = CollectDailyMetricsResult(store_ok)
    /\ UNCHANGED <<agents, config_enabled, next_run, clock, pending, cur, mode, health,
                   manual_result, inflight, fail_streak, ret, entry_status, entry_errors,
                   entry_done>>

\* run_pending runs an agent's job whose run_<agent> raises an Exception before
\* it reaches run_agent_task (a configuration entry without the key it reads,
\* lines 316, 321): run_pending is left with the job not rescheduled and the
\* handler of line 553 logs the error.
JobRaises ==
    /\ pc = "run_pending"
    /\ pending # <<>>
    /\ Head(pending) \in AgentSet
    /\ pending' = <<>>
    /\ pc' = "backoff"
    /\ UNCHANGED pvars
    /\ UNCHANGED <<agents, config_enabled, agent_status, next_run, clock, cur, mode,
                   shutdown_requested, is_running, health, manual_result, inflight,
                   fail_streak, ret, entry_status, entry_errors,
                   entry_done, daily_metrics>>

\* Mutant: the handler of line 553 gives up and start() returns.
PcAfterBackoffExit == "top"

\* Line 555: after time.sleep(5) the while loop goes on.
PcAfterBackoff == "loop"

\* Lines 553-555: the backoff sleep ends.
Backoff ==
    /\ pc = "backoff"
    /\ pc' = PcAfterBackoff
    /\ UNCHANGED pvars
    /\ UNCHANGED <<agents, config_enabled, agent_status, next_run, clock, pending, cur,
                   mode, shutdown_requested, is_running, health, manual_result, inflight,
                   fail_streak, ret, entry_status, entry_errors,
                   entry_done, daily_metrics>>

\* Line 555: KeyboardInterrupt during time.sleep(5).  Raised inside a handler,
\* it is caught by neither except clause of start() nor by main (Exception
\* only): the process ends without shutdown().
InterruptDuringBackoff ==
    /\ pc = "backoff"
    /\ pc' = "dead"
    /\ UNCHANGED pvars
    /\ UNCHANGED <<agents, config_enabled, agent_status, next_run, clock, pending, cur,
                   mode, shutdown_requested, is_running, health, manual_result, inflight,
                   fail_streak, ret, entry_status, entry_errors,
                   entry_done, daily_metrics>>

(***************************************************************************)
(* Orchestrator: calls a client makes from the top level.                  *)
(***************************************************************************)
\* shutdown()
Shutdown ==
    /\ pc = "top"
    /\ shutdown_requested' = TRUE
    /\ is_running' = FALSE
    /\ agent_status' = ShutdownStatus
    /\ UNCHANGED pvars
    /\ \E store_ok \in BOOLEAN : daily_metrics' = CollectDailyMetricsResult(store_ok)
    /\ UNCHANGED <<agents, config_enabled, next_run, clock, pending, pc, cur, mode,
                   health, manual_result, inflight, fail_streak, ret,
                   entry_status, entry_errors, entry_done>>

\* health_check()
HealthCheck ==
    /\ pc = "top"
    /\ \E store_ok \in BOOLEAN : health' = HealthCheckResult(store_ok)
    /\ UNCHANGED pvars
    /\ UNCHANGED <<agents, config_enabled, agent_status, next_run, clock, pending, pc, cur,
                   mode, shutdown_requested, is_running, manual_result, inflight,
                   fail_streak, ret, entry_status, entry_errors,
                   entry_done, daily_metrics>>

\* run_manual_task(name) for a name that is unknown or has no branch: False.
ManualRefused(name) ==
    /\ pc = "top"
    /\ name \notin agents \/ name \notin ManualAgents
    /\ manual_result' = "False"
    /\ UNCHANGED pvars
    /\ UNCHANGED <<agents, config_enabled, agent_status, next_run, clock, pending, pc, cur,
                   mode, shutdown_requested, is_running, health, inflight, fail_streak,
                   ret, entry_status, entry_errors,
                   entry_done, daily_metrics>>

\* run_manual_task(name) whose run_<agent> returns at once: True.
ManualSkipped(name) ==
    /\ pc = "top"
    /\ name \in agents
    /\ name \in ManualAgents
    /\ ~RunsTask(name)
    /\ manual_result' = "True"
    /\ UNCHANGED pvars
    /\ UNCHANGED <<agents, config_enabled, agent_status, next_run, clock, pending, pc, cur,
                   mode, shutdown_requested, is_running, health, inflight, fail_streak,
                   ret, entry_status, entry_errors,
                   entry_done, daily_metrics>>

\* Mutant: a manual run is accepted while a frame is still running the task.
ManualRunReentrant(name) ==
    /\ pc \in {"top", "l279"}
    /\ name \in agents
    /\ name \in ManualAgents
    /\ RunsTask(name)
    /\ EnterTask(name, "manual")
    /\ UNCHANGED pvars
    /\ UNCHANGED <<agents, config_enabled, next_run, clock, pending, shutdown_requested,
                   is_running, health, manual_result, fail_streak, ret, daily_metrics>>

\* run_manual_task(name) that enters run_agent_task.
ManualRun(name) ==
    /\ pc = "top"
    /\ name \in agents
    /\ name \in ManualAgents
    /\ RunsTask(name)
    /\ EnterTask(name, "manual")
    /\ UNCHANGED pvars
    /\ UNCHANGED <<agents, config_enabled, next_run, clock, pending, shutdown_requested,
                   is_running, health, manual_result, fail_streak, ret, daily_metrics>>

NextOrch ==
    \/ Start
    \/ LoopExit
    \/ StartLoopIteration
    \/ RunHealthCheckJob
    \/ RunAgentJob
    \/ SkipAgentJob
    \/ Sleep
    \/ InterruptDuringSleep
    \/ JobRaises
    \/ Backoff
    \/ InterruptDuringBackoff
    \/ TaskTakesTime
    \/ TaskReturns
    \/ TaskRaises
    \/ TaskInterrupted
    \/ SuccessUpdate
    \/ SuccessReset
    \/ ExceptStatus
    \/ ExceptCount
    \/ ExceptDisable
    \/ ReturnFromTask
    \/ Shutdown
    \/ HealthCheck
    \/ \E name \in ManualInputs : ManualRefused(name)
    \/ \E name \in ManualInputs : ManualSkipped(name)
    \/ \E name \in ManualInputs : ManualRun(name)

InitOrch == OrchFresh /\ RegistryIdle

SpecOrch == InitOrch /\ [][NextOrch]_vars

\* Continuous mode (main without arguments): start() and nothing else, over
\* days: some passes of run_pending fall at midnight.
NextLoop ==
    \/ Start
    \/ LoopExit
    \/ StartLoopIteration
    \/ StartLoopIterationAtMidnight
    \/ RunHealthCheckJob
    \/ RunMetricsJob
    \/ RunAgentJob
    \/ SkipAgentJob
    \/ Sleep
    \/ InterruptDuringSleep
    \/ JobRaises
    \/ Backoff
    \/ InterruptDuringBackoff
    \/ TaskTakesTime
    \/ TaskReturns
    \/ TaskRaises
    \/ TaskInterrupted
    \/ SuccessUpdate
    \/ SuccessReset
    \/ ExceptStatus
    \/ ExceptCount
    \/ ExceptDisable
    \/ ReturnFromTask

\* The control thread keeps running: a sleep ends unless a KeyboardInterrupt
\* ends it, the loop test and run_pending follow.  Nothing is assumed about the
\* task functions.
LoopFairness ==
    /\ WF_vars(Backoff \/ InterruptDuringBackoff)
    /\ WF_vars(Sleep \/ InterruptDuringSleep)
    /\ WF_vars(StartLoopIteration \/ LoopExit)

SpecLoop == InitOrch /\ [][NextLoop]_vars /\ LoopFairness

(***************************************************************************)
(* Provider registry (APIManager).                                         *)
(***************************************************************************)
\* str.lower(), on the characters the names use.
Lower(ch) == IF ch = "E" THEN "e" ELSE ch

LowerSeq(t) == [i \in 1..Len(t) |-> Lower(t[i])]

\* Python's "pattern in text" on strings.
IsSubstring(pattern, text) ==
    \E i \in 0..(Len(text) - Len(pattern)) :
        SubSeq(text, i + 1, i + Len(pattern)) = pattern

\* Line 177: api_type.lower() in api_name.lower()
NameMatches(api_type, api_name) ==
    IsSubstring(LowerSeq(Chars[api_type]), LowerSeq(Chars[api_name]))

\* Lines 175-178: the enabled providers whose name matches, in dict order.
TypeApis(api_type) ==
    SelectSeq(api_names, LAMBDA n : NameMatches(api_type, n) /\ apis[n].enabled)

\* Mutant: the list is left in dict order.
SortedTypeApisUnsorted(api_type) == TypeApis(api_type)

\* Line 184: type_apis.sort(key=lambda x: x.priority)
SortedTypeApis(api_type) ==
    SortByKey(TypeApis(api_type), [n \in DOMAIN apis |-> apis[n].priority])

\* Mutant: the per-minute test of lines 205-210 is left out.
CanMakeRequestNoMinute(api_name) ==
    /\ api_name \in DOMAIN apis
    /\ apis[api_name].enabled
    /\ usage[api_name].requests_today < apis[api_name].rate_limit_per_day

\* Mutant: the enabled test of line 196 is left out.
CanMakeRequestIgnoreEnabled(api_name) ==
    /\ api_name \in DOMAIN apis
    /\ usage[api_name].requests_today < apis[api_name].rate_limit_per_day
    /\ ~ /\ usage[api_name].last_request_time # NoTime
         /\ now - usage[api_name].last_request_time < MinuteUnits
         /\ usage[api_name].requests_this_minute >= apis[api_name].rate_limit_per_minute

\* can_make_request
CanMakeRequest(api_name) ==
    IF api_name \notin DOMAIN apis \/ ~apis[api_name].enabled THEN FALSE
    ELSE IF usage[api_name].requests_today >= apis[api_name].rate_limit_per_day THEN FALSE
    ELSE IF /\ usage[api_name].last_request_time # NoTime
            /\ now - usage[api_name].last_request_time < MinuteUnits
            /\ usage[api_name].requests_this_minute >= apis[api_name].rate_limit_per_minute
         THEN FALSE
    ELSE TRUE

\* Lines 187-191: the first provider of the list that can take a request.
RECURSIVE FirstAvailable(_)
FirstAvailable(list) ==
    IF list = <<>> THEN "None"
    ELSE IF CanMakeRequest(Head(list)) THEN Head(list)
    ELSE FirstAvailable(Tail(list))

\* Mutant: the head of the sorted list is returned without asking can_make_request.
GetAvailableApiUnchecked(api_type) ==
    IF TypeApis(api_type) = <<>> THEN "None" ELSE Head(SortedTypeApis(api_type))

\* get_available_api: the name of the chosen APIConfig, "None" for None.
GetAvailableApi(api_type) ==
    IF TypeApis(api_type) = <<>> THEN "None"
    ELSE FirstAvailable(SortedTypeApis(api_type))

\* Mutant: the request is counted against every provider of the table.
RecordRequestAll(u, api_name, status, t) ==
    [n \in DOMAIN u |->
        [u[n] EXCEPT !.requests_today = @ + 1, !.total_requests = @ + 1,
                     !.requests_this_minute = @ + 1, !.last_request_time = t]]

\* record_request(api_name, status_code=status) applied to usage table u at time t.
RecordRequest(u, api_name, status, t) ==
    LET u0 == IF api_name \in DOMAIN u THEN u
              ELSE [n \in DOMAIN u \cup {api_name} |->
                        IF n = api_name THEN NewUsage ELSE u[n]]
        old == u0[api_name]
        expired == old.last_request_time # NoTime
                   /\ t - old.last_request_time >= MinuteUnits
        failed == status >= 400
    IN  [u0 EXCEPT ![api_name] =
            [requests_today |-> old.requests_today + 1,
             requests_this_minute |->
                 (IF expired THEN 0 ELSE old.requests_this_minute) + 1,
             last_request_time |-> t,
             total_requests |-> old.total_requests + 1,
             errors_today |-> IF failed THEN old.errors_today + 1 ELSE old.errors_today,
             last_error_time |-> IF failed THEN t ELSE old.last_error_time,
             window_start |-> IF expired \/ old.last_request_time = NoTime
                              THEN t ELSE old.window_start]]

(***************************************************************************)
(* Dispatch functions (validate_email, enrich_company, get_leads).         *)
(***************************************************************************)
\* The times in log that still lie within one minute before time t.
WithinMinute(log, t) == SelectSeq(log, LAMBDA x : x > t - MinuteUnits)

\* Lines 76-98: the provider is chosen; with none the call returns its error
\* result, otherwise the HTTP request is sent.
Dispatch(c, api_type, logged) ==
    /\ call[c].pc = "idle"
    /\ ncalls < MaxCalls
    /\ ncalls' = ncalls + 1
    /\ LET chosen == GetAvailableApi(api_type)
       IN  /\ routes' = IF logged THEN Append(routes, chosen) ELSE routes
           /\ IF chosen = "None"
              THEN UNCHANGED <<call, issued, issued_today>>
              ELSE /\ call' = [call EXCEPT ![c] = [pc |-> "request", api |-> chosen]]
                   /\ issued' = [issued EXCEPT ![chosen] = Append(@, now)]
                   /\ issued_today' = [issued_today EXCEPT ![chosen] = @ + 1]
    /\ UNCHANGED <<api_names, apis, usage, now, health_status>>
    /\ UNCHANGED ovars

\* Lines 98-122: status 200 and a body that parses: one record_request.
ResponseOk(c) ==
    /\ call[c].pc = "request"
    /\ usage' = RecordRequest(usage, call[c].api, 200, now)
    /\ call' = [call EXCEPT ![c] = IdleCall]
    /\ UNCHANGED <<api_names, apis, now, issued, issued_today, ncalls, routes, health_status>>
    /\ UNCHANGED ovars

\* Lines 98-107 and 124-142: any other status: record_request after the
\* response, and record_request again in the else branch.
ResponseOtherStatus(c, status) ==
    /\ call[c].pc = "request"
    /\ usage' = RecordRequest(RecordRequest(usage, call[c].api, status, now),
                              call[c].api, status, now)
    /\ call' = [call EXCEPT ![c] = IdleCall]
    /\ UNCHANGED <<api_names, apis, now, issued, issued_today, ncalls, routes, health_status>>
    /\ UNCHANGED ovars

\* Lines 98-110 and 144-154: status 200 with a body response.json() rejects:
\* record_request with 200, then the handler's record_request with 500.
ResponseBadBody(c) ==
    /\ call[c].pc = "request"
    /\ usage' = RecordRequest(RecordRequest(usage, call[c].api, 200, now),
                              call[c].api, 500, now)
    /\ call' = [call EXCEPT ![c] = IdleCall]
    /\ UNCHANGED <<api_names, apis, now, issued, issued_today, ncalls, routes, health_status>>
    /\ UNCHANGED ovars

\* Lines 98 and 144-154: requests.get raises (timeout, connection error): the
\* handler's record_request with 500.
RequestRaises(c) ==
    /\ call[c].pc = "request"
    /\ usage' = RecordRequest(usage, call[c].api, 500, now)
    /\ call' = [call EXCEPT ![c] = IdleCall]
    /\ UNCHANGED <<api_names, apis, now, issued, issued_today, ncalls, routes, health_status>>
    /\ UNCHANGED ovars

\* Time passes on the registry's clock.
Tick ==
    /\ now < MaxNow
    /\ now' = now + 1
    /\ issued' = [n \in ProviderSet |-> WithinMinute(issued[n], now + 1)]
    /\ UNCHANGED <<api_names, apis, usage, call, issued_today, ncalls, routes, health_status>>
    /\ UNCHANGED ovars

AllIdle == \A c \in Callers : call[c].pc = "idle"

\* Lines 344-345: the registry table after disable_api(api_name).
DisabledIn(table, api_name) ==
    IF api_name \in DOMAIN table
    THEN [table EXCEPT ![api_name].enabled = FALSE]
    ELSE table

\* Lines 350-351: the registry table after enable_api(api_name).
EnabledIn(table, api_name) ==
    IF api_name \in DOMAIN table
    THEN [table EXCEPT ![api_name].enabled = TRUE]
    ELSE table

\* disable_api
DisableApi(api_name) ==
    /\ AllIdle
    /\ apis' = DisabledIn(apis, api_name)
    /\ UNCHANGED <<api_names, usage, now, call, issued, issued_today, ncalls, routes, health_status>>
    /\ UNCHANGED ovars

\* enable_api
EnableApi(api_name) ==
    /\ AllIdle
    /\ apis' = EnabledIn(apis, api_name)
    /\ UNCHANGED <<api_names, usage, now, call, issued, issued_today, ncalls, routes, health_status>>
    /\ UNCHANGED ovars

\* reset_daily_counters: a new day starts.
ResetDailyCounters ==
    /\ AllIdle
    /\ usage' = [n \in DOMAIN usage |->
                    [usage[n] EXCEPT !.requests_today = 0, !.errors_today = 0]]
    /\ issued_today' = [n \in ProviderSet |-> 0]
    /\ UNCHANGED <<api_names, apis, now, call, issued, ncalls, routes, health_status>>
    /\ UNCHANGED ovars

\* The orchestrator left alone (the registry specifications).
OrchIdle ==
    /\ OrchFresh
    /\ agents = {}
    /\ config_enabled = [a \in AgentSet |-> TRUE]

\* A rate limit pair of an APIConfig.
Limits(per_minute, per_day) ==
    [rate_limit_per_minute |-> per_minute, rate_limit_per_day |-> per_day]

\* The configurations the registry is loaded with.
ConfigChoices ==
    [email_a |-> {Limits(1, 2)},
     Email_b |-> {Limits(2, 4)}]

PriorityChoices == [email_a |-> {1, 2}, Email_b |-> {1, 2}]

\* load_configuration: every provider enabled, a fresh APIUsage for each.
RegistryLoaded ==
    /\ api_names = ProviderNames
    /\ apis \in [ProviderSet -> [rate_limit_per_minute : {1, 2},
                                 rate_limit_per_day : {2, 4},
                                 enabled : {TRUE},
                                 priority : {1, 2}]]
    /\ \A n \in ProviderSet :
          /\ Limits(apis[n].rate_limit_per_minute, apis[n].rate_limit_per_day)
                \in ConfigChoices[n]
          /\ apis[n].priority \in PriorityChoices[n]
    /\ \E n \in ProviderSet : apis[n].priority = 1
    /\ usage = [n \in ProviderSet |-> NewUsage]
    /\ now = 0
    /\ call = [c \in Callers |-> IdleCall]
    /\ issued = [n \in ProviderSet |-> <<>>]
    /\ issued_today = [n \in ProviderSet |-> 0]
    /\ ncalls = 0
    /\ routes = <<>>
    /\ health_status = <<>>

InitDispatch == OrchIdle /\ RegistryLoaded

\* One caller: the dispatch calls follow one another.
NextDispatch ==
    \/ Dispatch("c1", "email", FALSE)
    \/ ResponseOk("c1")
    \/ \E status \in OtherStatusCodes : ResponseOtherStatus("c1", status)
    \/ ResponseBadBody("c1")
    \/ RequestRaises("c1")
    \/ Tick
    \/ \E n \in ProviderSet : DisableApi(n)
    \/ \E n \in ProviderSet : EnableApi(n)

SpecDispatch == InitDispatch /\ [][NextDispatch]_vars

\* An APIConfig of the registry, enabled as load_configuration leaves it.
NewApiConfig(per_minute, per_day, prio) ==
    [rate_limit_per_minute |-> per_minute, rate_limit_per_day |-> per_day,
     enabled |-> TRUE, priority |-> prio]

\* The registry loaded with the given table of APIConfig, nothing used yet.
RegistryWith(table) ==
    /\ api_names = ProviderNames
    /\ apis = table
    /\ usage = [n \in ProviderSet |-> NewUsage]
    /\ now = 0
    /\ call = [c \in Callers |-> IdleCall]
    /\ issued = [n \in ProviderSet |-> <<>>]
    /\ issued_today = [n \in ProviderSet |-> 0]
    /\ ncalls = 0
    /\ routes = <<>>
    /\ health_status = <<>>

\* Two email providers: email_a first with 2 requests a day, Email_b behind it
\* with 100.
FailoverTable ==
    [email_a |-> NewApiConfig(60, 2, 1), Email_b |-> NewApiConfig(60, 100, 2)]

InitFailover == OrchIdle /\ RegistryWith(FailoverTable)

\* validate_email called again and again by one caller.
NextFailover ==
    \/ Dispatch("c1", "email", TRUE)
    \/ ResponseOk("c1")
    \/ \E status \in OtherStatusCodes : ResponseOtherStatus("c1", status)
    \/ ResponseBadBody("c1")
    \/ RequestRaises("c1")
    \/ Tick

SpecFailover == InitFailover /\ [][NextFailover]_vars

\* email_a first with 1 request a minute, Email_b behind it with 2 a minute and
\* 3 a day.
ConcTable ==
    [email_a |-> NewApiConfig(1, 100, 1), Email_b |-> NewApiConfig(2, 3, 2)]

InitConc == OrchIdle /\ RegistryWith(ConcTable)

\* Callers on threads of their own share the one api_manager: their steps
\* interleave, each call to get_available_api and to record_request on its own.
NextConc ==
    \/ \E c \in Callers : Dispatch(c, "email", FALSE)
    \/ \E c \in Callers : ResponseOk(c)
    \/ \E c \in Callers : \E status \in OtherStatusCodes : ResponseOtherStatus(c, status)
    \/ \E c \in Callers : ResponseBadBody(c)
    \/ \E c \in Callers : RequestRaises(c)
    \/ Tick

SpecConc == InitConc /\ [][NextConc]_vars

(***************************************************************************)
(* record_request statement by statement, as threads that share the        *)
(* registry run it: a thread may be switched out between any two loads or  *)
(* stores of an attribute.  No lock is taken anywhere in the method.        *)
(***************************************************************************)
\* The attribute the augmented assignment at a line works on.
CounterAt(line) ==
    IF line = "l223" THEN "total_requests"
    ELSE IF line = "l224" THEN "requests_today"
    ELSE "requests_this_minute"

\* The statement after the augmented assignment at a line.
LineAfter(line) ==
    IF line = "l223" THEN "l224" ELSE IF line = "l224" THEN "l228" ELSE "l232"

IncrementLines == {"l223", "l224", "l231"}

\* Lines 217-221: record_request(api_name) is entered for a name that has a
\* usage record; usage and now are bound.
RecordBegin(c, api_name) ==
    /\ call[c].pc = "idle"
    /\ api_name \in DOMAIN usage
    /\ ncalls < MaxCalls
    /\ ncalls' = ncalls + 1
    /\ call' = [call EXCEPT ![c] = [pc |-> "l223", api |-> api_name, t |-> now,
                                    reg |-> 0, stored |-> FALSE]]
    /\ issued' = [issued EXCEPT ![api_name] = Append(@, now)]
    /\ issued_today' = [issued_today EXCEPT ![api_name] = @ + 1]
    /\ UNCHANGED <<api_names, apis, usage, now, routes, health_status>>
    /\ UNCHANGED ovars

\* Lines 223, 224, 231: usage.<counter> += 1 loads the attribute.
RecordLoad(c) ==
    /\ call[c].pc \in IncrementLines
    /\ ~call[c].stored
    /\ call' = [call EXCEPT ![c].reg = usage[call[c].api][CounterAt(call[c].pc)],
                            ![c].stored = TRUE]
    /\ UNCHANGED <<api_names, apis, usage, now, issued, issued_today, ncalls, routes,
                   health_status>>
    /\ UNCHANGED ovars

\* Lines 223, 224, 231: usage.<counter> += 1 stores the sum.
RecordStore(c) ==
    /\ call[c].pc \in IncrementLines
    /\ call[c].stored
    /\ usage' = [usage EXCEPT ![call[c].api][CounterAt(call[c].pc)] = call[c].reg + 1]
    /\ call' = [call EXCEPT ![c].pc = LineAfter(call[c].pc), ![c].stored = FALSE]
    /\ UNCHANGED <<api_names, apis, now, issued, issued_today, ncalls, routes, health_status>>
    /\ UNCHANGED ovars

\* Line 228: has a minute passed since the last request?
RecordCheckMinute(c) ==
    /\ call[c].pc = "l228"
    /\ LET last == usage[call[c].api].last_request_time
           expired == last # NoTime /\ call[c].t - last >= MinuteUnits
       IN  call' = [call EXCEPT ![c].pc = IF expired THEN "l229" ELSE "l231"]
    /\ UNCHANGED <<api_names, apis, usage, now, issued, issued_today, ncalls, routes,
                   health_status>>
    /\ UNCHANGED ovars

\* Line 229: usage.requests_this_minute = 0
RecordResetMinute(c) ==
    /\ call[c].pc = "l229"
    /\ usage' = [usage EXCEPT ![call[c].api].requests_this_minute = 0,
                              ![call[c].api].window_start = call[c].t]
    /\ call' = [call EXCEPT ![c].pc = "l231"]
    /\ UNCHANGED <<api_names, apis, now, issued, issued_today, ncalls, routes, health_status>>
    /\ UNCHANGED ovars

\* Lines 232-243: last_request_time is written; with status 200 nothing else
\* is, and the call returns.
RecordSetLast(c) ==
    /\ call[c].pc = "l232"
    /\ usage' = [usage EXCEPT ![call[c].api].last_request_time = call[c].t,
                              ![call[c].api].window_start =
                                  IF @ = NoTime THEN call[c].t ELSE @]
    /\ call' = [call EXCEPT ![c] = IdleCall]
    /\ UNCHANGED <<api_names, apis, now, issued, issued_today, ncalls, routes, health_status>>
    /\ UNCHANGED ovars

\* Threads record requests for email_a on the shared registry while time passes.
NextRecord ==
    \/ \E c \in Callers : RecordBegin(c, "email_a")
    \/ \E c \in Callers : RecordLoad(c)
    \/ \E c \in Callers : RecordStore(c)
    \/ \E c \in Callers : RecordCheckMinute(c)
    \/ \E c \in Callers : RecordResetMinute(c)
    \/ \E c \in Callers : RecordSetLast(c)
    \/ Tick

SpecRecord == InitConc /\ [][NextRecord]_vars

(***************************************************************************)
(* Registry health report (get_api_health).                                *)
(***************************************************************************)
\* The float (a / b) * 100, kept exact as the pair of a and b.
Percent(a, b) == <<a, b>>

\* Lines 308-312: error_rate.
ErrorRate(u) ==
    IF u.total_requests > 0 THEN Percent(u.errors_today, u.total_requests) ELSE Percent(0, 1)

\* Mutant: last_request is reported as the age of the last request.
GetApiHealthAges ==
    [n \in DOMAIN apis |->
        [enabled |-> apis[n].enabled,
         can_make_request |-> CanMakeRequest(n),
         usage_percentage |-> Percent(usage[n].requests_today, apis[n].rate_limit_per_day),
         error_rate |-> ErrorRate(usage[n]),
         requests_today |-> usage[n].requests_today,
         daily_limit |-> apis[n].rate_limit_per_day,
         last_request |-> IF usage[n].last_request_time = NoTime THEN NoTime
                          ELSE now - usage[n].last_request_time,
         last_error |-> usage[n].last_error_time]]

\* The dict get_api_health returns.
GetApiHealth ==
    [n \in DOMAIN apis |->
        [enabled |-> apis[n].enabled,
         can_make_request |-> CanMakeRequest(n),
         usage_percentage |-> Percent(usage[n].requests_today, apis[n].rate_limit_per_day),
         error_rate |-> ErrorRate(usage[n]),
         requests_today |-> usage[n].requests_today,
         daily_limit |-> apis[n].rate_limit_per_day,
         last_request |-> usage[n].last_request_time,
         last_error |-> usage[n].last_error_time]]

\* get_api_health() raises: KeyError at line 305 for a provider without a usage
\* record, ZeroDivisionError at line 313 for a daily limit of 0.
GetApiHealthRaises ==
    \E n \in DOMAIN apis : n \notin DOMAIN usage \/ apis[n].rate_limit_per_day = 0

\* get_api_health(): the report is computed and returned, unless the call
\* raises and returns nothing.
GetApiHealthCall ==
    /\ AllIdle
    /\ health_status' = IF GetApiHealthRaises THEN health_status ELSE GetApiHealth
    /\ UNCHANGED <<api_names, apis, usage, now, call, issued, issued_today, ncalls, routes>>
    /\ UNCHANGED ovars

\* record_request(api_name, status_code=status) called on the registry; a name
\* without a usage record gets a fresh one first (lines 217-218).
RecordOutcome(api_name, status) ==
    /\ AllIdle
    /\ api_name \in DOMAIN usage => usage[api_name].total_requests < MaxRecords
    /\ usage' = RecordRequest(usage, api_name, status, now)
    /\ UNCHANGED <<api_names, apis, now, call, issued, issued_today, ncalls, routes, health_status>>
    /\ UNCHANGED ovars

InitHealth == OrchIdle /\ RegistryWith(ConcTable)

\* One provider of the registry is used (outcomes recorded, switched off and
\* on) next to one that is left alone, and the registry is asked for its health
\* now and then, while time passes.
NextHealth ==
    \/ \E status \in {200, 500} : RecordOutcome("email_a", status)
    \/ DisableApi("email_a")
    \/ EnableApi("email_a")
    \/ Tick
    \/ GetApiHealthCall

SpecHealth == InitHealth /\ [][NextHealth]_vars

(***************************************************************************)
(* Registry maintenance (add_api, update_api, enable_api, disable_api).    *)
(***************************************************************************)
\* The names add_api is called with.
RegistryNames == ProviderSet \cup {"company_c"}

\* The keyword arguments update_api is called with, one at a time;
\* "no_such_field" is a key APIConfig has no attribute for.
UpdateKwargs ==
    ([key : {"priority"}, value : {1, 2}])
        \cup ([key : {"enabled"}, value : BOOLEAN])
        \cup ([key : {"rate_limit_per_day"}, value : {2, 4}])
        \cup ([key : {"no_such_field"}, value : {0}])

\* d[k] = v on a dict: a new key goes last, an old key is overwritten.
DictPut(d, k, v) == [x \in (DOMAIN d) \cup {k} |-> IF x = k THEN v ELSE d[x]]

\* The key order of self.apis after self.apis[k] = ...: a key already there
\* keeps its place.
KeysAfterPut(keys, k) ==
    IF \E i \in DOMAIN keys : keys[i] = k THEN keys ELSE Append(keys, k)

\* Mutant: add_api keeps the usage record of a name that has one.
UsageAfterAddKept(api_name) ==
    IF api_name \in DOMAIN usage THEN usage ELSE DictPut(usage, api_name, NewUsage)

\* Line 330: self.usage[config.name] = APIUsage(api_name=config.name)
UsageAfterAdd(api_name) == DictPut(usage, api_name, NewUsage)

\* add_api(config)
AddApi(api_name, config) ==
    /\ AllIdle
    /\ api_names' = KeysAfterPut(api_names, api_name)
    /\ apis' = DictPut(apis, api_name, config)
    /\ usage' = UsageAfterAdd(api_name)
    /\ UNCHANGED <<now, call, issued, issued_today, ncalls, routes, health_status>>
    /\ UNCHANGED ovars

\* setattr(config, key, value) where hasattr(config, key).
SetAttr(config, kw) ==
    IF kw.key = "priority" THEN [config EXCEPT !.priority = kw.value]
    ELSE IF kw.key = "enabled" THEN [config EXCEPT !.enabled = kw.value]
    ELSE IF kw.key = "rate_limit_per_day" THEN [config EXCEPT !.rate_limit_per_day = kw.value]
    ELSE config

\* update_api(api_name, key=value)
UpdateApi(api_name, kw) ==
    /\ AllIdle
    /\ apis' = IF api_name \in DOMAIN apis
               THEN [apis EXCEPT ![api_name] = SetAttr(@, kw)]
               ELSE apis
    /\ UNCHANGED <<api_names, usage, now, call, issued, issued_today, ncalls, routes, health_status>>
    /\ UNCHANGED ovars

\* The registry before any provider is registered.
InitRegistry == OrchIdle /\ RegistryIdle

\* The APIConfig objects add_api is called with.
AddConfigs ==
    {[NewApiConfig(1, 2, prio) EXCEPT !.enabled = en] : prio \in {1, 2}, en \in BOOLEAN}

NextRegistry ==
    \/ \E n \in RegistryNames, config \in AddConfigs : AddApi(n, config)
    \/ \E n \in ProviderSet, status \in {200, 500} : RecordOutcome(n, status)
    \/ \E n \in RegistryNames : DisableApi(n)
    \/ \E n \in RegistryNames : EnableApi(n)
    \/ \E n \in RegistryNames, kw \in UpdateKwargs : UpdateApi(n, kw)

SpecRegistry == InitRegistry /\ [][NextRegistry]_vars

\* APIConfig objects with limits of any sign: add_api takes what it is given.
AnyLimitConfigs == {NewApiConfig(m, d, 1) : m \in {0, 1}, d \in {0, 2}}

\* update_api(api_name, rate_limit_per_day=value)
LimitKwargs == [key : {"rate_limit_per_day"}, value : {0, 2}]

\* The registry is maintained with configurations of any limits, used, and
\* asked for its health.
NextMaintain ==
    \/ \E n \in ProviderSet, config \in AnyLimitConfigs : AddApi(n, config)
    \/ \E n \in ProviderSet, kw \in LimitKwargs : UpdateApi(n, kw)
    \/ \E n \in ProviderSet : RecordOutcome(n, 200)
    \/ \E n \in ProviderSet : DisableApi(n)
    \/ \E n \in ProviderSet : EnableApi(n)
    \/ GetApiHealthCall

SpecMaintain == InitRegistry /\ [][NextMaintain]_vars

(***************************************************************************)
(* Claims about the orchestrator, checked under SpecOrch.                  *)
(***************************************************************************)
Range(s) == {s[i] : i \in DOMAIN s}

Occurrences(s, x) == Cardinality({i \in DOMAIN s : s[i] = x})

\* C1 (as claimed): a scheduler tick never enters run_agent_task, and so never
\* calls the task function, for an agent whose status is "disabled".
C1_DisabledNeverInvoked ==
    (cur # "none" /\ mode = "sched") => entry_status # "disabled"

\* C2 (as claimed): in every state, for every agent, error_count at or above
\* max_error_threshold implies status "disabled".
C2_ThresholdImpliesDisabled ==
    \A a \in agents :
        agent_status[a].error_count >= max_error_threshold
            => agent_status[a].status = "disabled"

\* C3 (as claimed): no step takes an agent out of status "disabled" (the program
\* has no reset operation, so every step is a tick, a manual run, a health check
\* or a shutdown).
C3_DisabledIsTerminal ==
    [][\A a \in agents :
          agent_status[a].status = "disabled" => agent_status'[a].status = "disabled"]_vars

\* C4: when run_agent_task returns after a normal return of the task function,
\* error_count is 0, whatever it was on entry; outside a frame error_count is the
\* number of failures since the last success, so an agent is only found disabled
\* after max_error_threshold failures in a row.
C4_SuccessResetsErrorCount ==
    /\ (pc = "return" /\ ret = "result") => agent_status[cur].error_count = 0
    /\ \A a \in agents :
          inflight[a] = 0 =>
              /\ agent_status[a].error_count = fail_streak[a]
              /\ agent_status[a].status = "disabled" => fail_streak[a] >= max_error_threshold

\* C4 witness: a success is about to be returned by a frame entered with
\* max_error_threshold - 1 errors on the count.
C4_Witness ==
    /\ pc = "return"
    /\ ret = "result"
    /\ entry_errors = max_error_threshold - 1
    /\ agent_status[cur].error_count = 0

\* At most one frame per agent, no job of an agent waiting while its frame runs,
\* no job listed twice in one pass of run_pending.
NoOverlap ==
    \A a \in AgentSet :
        /\ inflight[a] <= 1
        /\ inflight[a] = 1 => (cur = a /\ a \notin Range(pending))
        /\ Occurrences(pending, a) <= 1

IndexOf(n) == CHOOSE i \in DOMAIN api_names : api_names[i] = n

\* C6 (as claimed): for every provider, in every state, requests_today is at
\* most rate_limit_per_day, and the requests issued to it in the day are at most
\* rate_limit_per_day.
C6_DailyQuota ==
    \A n \in ProviderSet :
        /\ usage[n].requests_today <= apis[n].rate_limit_per_day
        /\ issued_today[n] <= apis[n].rate_limit_per_day

\* C7: for every provider, the requests issued to it within the minute that ends
\* now are at most rate_limit_per_minute (every window of one minute ends at
\* some now).
C7_MinuteQuota ==
    \A n \in ProviderSet : Len(issued[n]) <= apis[n].rate_limit_per_minute

\* C7 witness: a provider with quota left for the day has its minute full and is
\* refused, after a window of its own has already run out once.
C7_Witness ==
    \E n \in ProviderSet :
        /\ apis[n].enabled
        /\ usage[n].requests_today < apis[n].rate_limit_per_day
        /\ Len(issued[n]) = apis[n].rate_limit_per_minute
        /\ issued_today[n] > Len(issued[n])
        /\ ~CanMakeRequest(n)

\* C8 (as claimed): with callers running concurrently, no interleaving has more
\* requests in flight or issued to a provider than its per-minute and per-day
\* limits allow: the check and the update act as one step.
C8_AtomicCheckThenAct ==
    \A n \in ProviderSet :
        /\ Cardinality({c \in Callers : call[c].pc = "request" /\ call[c].api = n})
              <= apis[n].rate_limit_per_minute
        /\ Len(issued[n]) <= apis[n].rate_limit_per_minute
        /\ issued_today[n] <= apis[n].rate_limit_per_day

\* C9: get_available_api answers with a provider exactly when some enabled
\* provider whose name matches can take a request; the answer is such a
\* provider, none of them has a lower priority number, and among equals it is
\* the first registered. With priorities 1 and 2, the first provider at its
\* daily limit and the second able to take a request, the first still heads the
\* sorted list and the answer is the second.
C9_GreedyPriorityFallback ==
    \A t \in ApiTypes :
        LET r == GetAvailableApi(t)
            eligible == {n \in ProviderSet :
                            NameMatches(t, n) /\ apis[n].enabled /\ CanMakeRequest(n)}
        IN  /\ (r = "None") <=> (eligible = {})
            /\ r # "None" =>
                  /\ r \in eligible
                  /\ \A m \in eligible :
                        \/ apis[r].priority < apis[m].priority
                        \/ /\ apis[r].priority = apis[m].priority
                           /\ IndexOf(r) <= IndexOf(m)
            /\ \A p, q \in ProviderSet :
                  (/\ NameMatches(t, p) /\ NameMatches(t, q)
                   /\ apis[p].enabled /\ apis[q].enabled
                   /\ apis[p].priority = 1 /\ apis[q].priority = 2
                   /\ usage[p].requests_today = apis[p].rate_limit_per_day
                   /\ CanMakeRequest(q))
                  => (Head(SortedTypeApis(t)) = p /\ r = q)

\* C9 witness: a request is on its way to the priority-2 provider, chosen while
\* the enabled priority-1 provider sits at its daily limit.
C9_Witness ==
    \E p, q \in ProviderSet :
        /\ apis[p].enabled /\ apis[q].enabled
        /\ apis[p].priority = 1 /\ apis[q].priority = 2
        /\ usage[p].requests_today = apis[p].rate_limit_per_day
        /\ call["c1"].pc = "request"
        /\ call["c1"].api = q
        /\ Head(SortedTypeApis("email")) = p

\* C10 (as claimed): with email_a (priority 1, 2 a day) and Email_b (priority 2,
\* 100 a day) fresh, the first three dispatch calls go to email_a, email_a and
\* Email_b, whatever the outcome of each call.
C10_FailoverSequence ==
    /\ Len(routes) >= 1 => routes[1] = "email_a"
    /\ Len(routes) >= 2 => routes[2] = "email_a"
    /\ Len(routes) >= 3 => routes[3] = "Email_b"

\* C11 (as claimed): can_make_request is true exactly when the provider is
\* enabled, requests_today is below rate_limit_per_day, and either a minute has
\* passed since the current per-minute window started or requests_this_minute
\* is below rate_limit_per_minute.
C11_CanMakeRequestIff ==
    \A n \in ProviderSet :
        CanMakeRequest(n) <=>
            /\ apis[n].enabled
            /\ usage[n].requests_today < apis[n].rate_limit_per_day
            /\ \/ usage[n].window_start = NoTime
               \/ now - usage[n].window_start >= MinuteUnits
               \/ usage[n].requests_this_minute < apis[n].rate_limit_per_minute

\* The providers registered so far.
Registered == {api_names[i] : i \in DOMAIN api_names}

\* C12: after any sequence of add_api, update_api, enable_api and disable_api,
\* the list get_available_api walks holds each enabled provider whose name
\* matches the type exactly once and nothing else, in ascending priority, equal
\* priorities in the order of registration.
C12_EligibleList ==
    \A t \in ApiTypes :
        LET list == SortedTypeApis(t)
        IN  /\ {list[i] : i \in DOMAIN list}
                  = {n \in Registered : NameMatches(t, n) /\ apis[n].enabled}
            /\ \A i, j \in DOMAIN list :
                  i < j =>
                      \/ apis[list[i]].priority < apis[list[j]].priority
                      \/ /\ apis[list[i]].priority = apis[list[j]].priority
                         /\ IndexOf(list[i]) < IndexOf(list[j])

\* C12 witness: two enabled email providers listed against their order of
\* registration, with a provider of another type registered as well.
C12_Witness ==
    /\ Len(SortedTypeApis("email")) = 2
    /\ SortedTypeApis("email") # TypeApis("email")
    /\ "company_c" \in Registered
    /\ SortedTypeApis("company") = <<"company_c">>

\* The status codes record_request is called with.
StatusCodes == {200} \cup OtherStatusCodes

\* C13 (as claimed): whenever record_request is applied, to any provider with
\* any status, requests_today and total_requests grow by exactly 1; the window
\* counter is 1 afterwards if the per-minute window (a minute from its start)
\* has expired and one more than before otherwise; errors_today grows by 1 and
\* last_error_time becomes now exactly when the status is 400 or more, both
\* staying as they were otherwise.
C13_RecordRequestEffect ==
    \A n \in ProviderSet : \A status \in StatusCodes :
        LET old == usage[n]
            new == RecordRequest(usage, n, status, now)[n]
            window_expired == /\ old.window_start # NoTime
                              /\ now - old.window_start >= MinuteUnits
        IN  /\ new.requests_today = old.requests_today + 1
            /\ new.total_requests = old.total_requests + 1
            /\ new.requests_this_minute =
                  IF window_expired THEN 1 ELSE old.requests_this_minute + 1
            /\ status >= 400 =>
                  /\ new.errors_today = old.errors_today + 1
                  /\ new.last_error_time = now
            /\ status < 400 =>
                  /\ new.errors_today = old.errors_today
                  /\ new.last_error_time = old.last_error_time

\* enable_api and disable_api applied twice give what they give applied once,
\* and neither changes the table for a name it does not hold.
EnableDisableIdempotent ==
    \A n \in RegistryNames :
        /\ DisabledIn(DisabledIn(apis, n), n) = DisabledIn(apis, n)
        /\ EnabledIn(EnabledIn(apis, n), n) = EnabledIn(apis, n)
        /\ n \notin DOMAIN apis => (DisabledIn(apis, n) = apis /\ EnabledIn(apis, n) = apis)

\* A provider that is not enabled can take no request and is not the answer of
\* get_available_api, whatever its counters.
DisabledIneligible ==
    \A p \in Registered :
        ~apis[p].enabled =>
            /\ ~CanMakeRequest(p)
            /\ \A t \in ApiTypes : GetAvailableApi(t) # p

\* C14 (as claimed): enable_api and disable_api are idempotent and no-ops on
\* unknown names; a disabled provider is never chosen and cannot take a
\* request; and a disabled provider becomes enabled by an enable_api step only.
C14_DisabledUntilEnableApi ==
    /\ []EnableDisableIdempotent
    /\ []DisabledIneligible
    /\ [][\A p \in Registered :
             (~apis[p].enabled /\ apis'[p].enabled) => EnableApi(p)]_vars

\* C14 (amended): as above, but a disabled provider becomes enabled by
\* enable_api, by update_api(enabled=True) (the same step as enable_api) or by
\* add_api registering an enabled config under its name.
C14_DisabledUntilReenabled ==
    /\ []EnableDisableIdempotent
    /\ []DisabledIneligible
    /\ [][\A p \in Registered :
             (~apis[p].enabled /\ apis'[p].enabled) =>
                 \/ EnableApi(p)
                 \/ UpdateApi(p, [key |-> "enabled", value |-> TRUE])
                 \/ \E config \in AddConfigs : config.enabled /\ AddApi(p, config)]_vars

\* C14 witness: a disabled provider with requests recorded and quota left, while
\* another provider of its type is chosen.
C14_Witness ==
    \E p \in Registered :
        /\ ~apis[p].enabled
        /\ NameMatches("email", p)
        /\ usage[p].total_requests >= 1
        /\ usage[p].requests_today < apis[p].rate_limit_per_day
        /\ GetAvailableApi("email") \in Registered \ {p}

\* C15 (as claimed): a run_agent_task frame ends in one way only, by returning
\* to its caller (its result, or None after a failure); a scheduled run then
\* hands control back to run_pending with no shutdown caused by the frame.
C15_RunAgentTaskNeverRaises ==
    [][(cur # "none" /\ cur' = "none") =>
          /\ pc = "return"
          /\ ret \in {"result", "None"}
          /\ mode = "sched" => (pc' = "run_pending" /\ shutdown_requested' = shutdown_requested)]_vars

\* The control thread is inside the while loop of start().
InLoop == pc \in {"loop", "run_pending", "backoff"} \/ (cur # "none" /\ mode = "sched")

\* C16: the loop of start() is left only with shutdown requested (before or by
\* the step) or by a KeyboardInterrupt that arrives during the backoff sleep;
\* and after an Exception in an iteration, unless such a KeyboardInterrupt
\* arrives, shutdown is still not requested and run_pending is called again.
C16_LoopSurvivesErrors ==
    /\ [][(InLoop /\ ~InLoop') =>
             \/ shutdown_requested
             \/ shutdown_requested'
             \/ (pc = "backoff" /\ InterruptDuringBackoff)]_vars
    /\ (pc = "backoff") ~> ((pc = "run_pending" /\ ~shutdown_requested) \/ pc = "dead")

\* C16 witness: an iteration has raised and the loop is in its backoff, the
\* orchestrator running and no shutdown requested.
C16_Witness ==
    /\ pc = "backoff"
    /\ is_running
    /\ ~shutdown_requested
    /\ \E a \in AgentSet : next_run[a] <= clock

\* C17 (as claimed): a shutdown that is requested while a scheduled invocation
\* is in flight leaves the invocation running, and an agent in flight goes from
\* "active" to "idle" only by completing the run, tasks_completed growing by 1.
C17_ShutdownLetsRunFinish ==
    [][(cur # "none" /\ mode = "sched") =>
          /\ (~shutdown_requested /\ shutdown_requested') =>
                (cur' = cur /\ agent_status'[cur] = agent_status[cur])
          /\ (agent_status[cur].status = "active" /\ agent_status'[cur].status = "idle") =>
                agent_status'[cur].tasks_completed = agent_status[cur].tasks_completed + 1]_vars

\* C18: every step of a run_agent_task frame of agent a, from its entry to its
\* return, leaves the AgentStatus of every other agent as it was; unless a
\* KeyboardInterrupt ends the frame, the jobs of the others that wait in
\* run_pending keep waiting and their next_run is untouched, and when the frame
\* has returned run_pending goes on; a waiting job whose agent is enabled and
\* constructed can always be run, whatever the status of any agent.
C18_AgentIsolation ==
    /\ [][\A a \in agents : \A b \in agents \ {a} :
             (cur = a \/ cur' = a) =>
                 /\ agent_status'[b] = agent_status[b]
                 /\ (cur = a /\ shutdown_requested' = shutdown_requested) =>
                       /\ pending' = pending
                       /\ next_run'[b] = next_run[b]
                       /\ (cur' = "none" /\ mode = "sched") => pc' = "run_pending"]_vars
    /\ [](\A b \in AgentSet :
             (pc = "run_pending" /\ pending # <<>> /\ Head(pending) = b /\ RunsTask(b))
                 => ENABLED RunAgentJob)

\* C18 witness: a scheduled run returns None having just disabled its agent,
\* while the job of another agent, run before, waits in the same pass.
C18_Witness ==
    /\ pc = "return"
    /\ mode = "sched"
    /\ ret = "None"
    /\ agent_status[cur].status = "disabled"
    /\ \E b \in agents \ {cur} :
          /\ b \in Range(pending)
          /\ RunsTask(b)
          /\ agent_status[b].tasks_completed >= 1

\* A dispatch function records the outcome of its request to provider p.
RecordsOn(p) ==
    \E c \in Callers :
        call[c].pc = "request" /\ call[c].api = p /\ call'[c].pc = "idle"

\* C19: a step that records a request to provider p (once or twice, any
\* status), enables p or disables p leaves the configuration and the usage
\* counters of every other provider q as they were, and can_make_request(q)
\* answers after the step what it answered before.
C19_ProviderIsolation ==
    [][\A p \in ProviderSet : \A q \in ProviderSet \ {p} :
          (RecordsOn(p) \/ EnableApi(p) \/ DisableApi(p)) =>
              /\ apis'[q] = apis[q]
              /\ usage'[q] = usage[q]
              /\ CanMakeRequest(q)' = CanMakeRequest(q)]_vars

\* C19 witness: provider p is past its daily limit and disabled, provider q has
\* taken a request since and can take another.
C19_Witness ==
    \E p \in ProviderSet : \E q \in ProviderSet \ {p} :
        /\ usage[p].requests_today >= apis[p].rate_limit_per_day
        /\ ~apis[p].enabled
        /\ usage[q].total_requests >= 1
        /\ usage[q].last_request_time > usage[p].last_request_time
        /\ CanMakeRequest(q)

\* C20 (as claimed): once max_error_threshold failures in a row have disabled
\* an agent, no tick invokes it, and it leaves "disabled" only by a reset, one
\* step that makes it "idle" with error_count 0.
C20_DisabledUntilReset ==
    [][\A a \in agents :
          (agent_status[a].status = "disabled" /\ fail_streak[a] >= max_error_threshold) =>
              /\ ~(cur = "none" /\ cur' = a /\ mode' = "sched")
              /\ agent_status'[a].status # "disabled" =>
                    (agent_status'[a].status = "idle" /\ agent_status'[a].error_count = 0)]_vars

\* C21 (as claimed): run_manual_task never enters run_agent_task for an agent
\* whose status is "disabled" or "active", and it never refuses a registered
\* agent that is neither.
C21_ManualRunGated ==
    [][\A a \in agents :
          /\ (cur = "none" /\ cur' = a /\ mode' = "manual") =>
                agent_status[a].status \notin {"disabled", "active"}
          /\ agent_status[a].status \notin {"disabled", "active"} => ~ManualRefused(a)]_vars

\* The registry holds what it held: no register, update, enable, disable or
\* record has happened in the step.
RegistryUntouched == api_names' = api_names /\ apis' = apis /\ usage' = usage

\* get_api_health's report with the can_make_request entries blanked.
HealthBesidesCanMakeRequest ==
    [n \in DOMAIN GetApiHealth |-> [GetApiHealth[n] EXCEPT !.can_make_request = FALSE]]

\* C22 (as claimed): get_api_health changes nothing but the report it returns,
\* and across any step that leaves the registry untouched, time passing
\* included, the report it would return stays identical.
C22_HealthIdempotent ==
    /\ [][health_status' # health_status =>
             (health_status' = GetApiHealth /\ RegistryUntouched /\ now' = now)]_vars
    /\ [][RegistryUntouched => GetApiHealth' = GetApiHealth]_vars

\* C22 (amended): the same, except that can_make_request may turn from false to
\* true as time passes (never from true to false); every other entry of the
\* report stays identical.
C22_HealthStableButCanMakeRequest ==
    /\ [][health_status' # health_status =>
             (health_status' = GetApiHealth /\ RegistryUntouched /\ now' = now)]_vars
    /\ [][RegistryUntouched =>
             /\ HealthBesidesCanMakeRequest' = HealthBesidesCanMakeRequest
             /\ now' = now => GetApiHealth' = GetApiHealth
             /\ \A n \in DOMAIN apis :
                   GetApiHealth[n].can_make_request => GetApiHealth'[n].can_make_request]_vars

\* C22 witness: a report said a provider cannot take a request; nothing has
\* touched the provider since, time has passed, and now it can.
C22_Witness ==
    /\ health_status # <<>>
    /\ \E n \in DOMAIN apis :
          /\ ~health_status[n].can_make_request
          /\ health_status[n].enabled = apis[n].enabled
          /\ health_status[n].requests_today = usage[n].requests_today
          /\ health_status[n].last_request = usage[n].last_request_time
          /\ CanMakeRequest(n)

\* The number of slots of its cadence that agent a's job has missed.
MissedSlots(a) == IF next_run[a] > clock THEN 0 ELSE (clock - next_run[a]) \div Cadence[a]

\* C23: however many slots a job has missed, a pass of run_pending lists it
\* once; a listed job leaves the list only by being run from its head or with
\* the pass given up on an exception; a run that returns puts the job's next
\* run one cadence after the return, so that it is not due again in the tick that
\* ran it and no missed slot is made up for; and no pass lists a job twice.
C23_MissedSlotsRunOnce ==
    /\ [](\A a \in AgentSet : Occurrences(pending, a) <= 1)
    /\ [][\A a \in AgentSet :
            /\ (pc = "loop" /\ pc' = "run_pending") =>
                  Occurrences(pending', a) = (IF next_run[a] <= clock THEN 1 ELSE 0)
            /\ (a \in Range(pending) /\ a \notin Range(pending')) =>
                  \/ a = Head(pending) /\ cur' = a /\ mode' = "sched"
                  \/ a = Head(pending) /\ next_run'[a] = clock + Cadence[a]
                  \/ pc' \in {"backoff", "top"}
            /\ next_run'[a] # next_run[a] =>
                  /\ next_run'[a] = clock' + Cadence[a]
                  /\ a \notin Range(pending')
                  /\ MissedSlots(a)' = 0]_vars

\* C23 witness: a job that had missed 2 slots before it was started is in its
\* one run, and is not listed for another.
C23_Witness ==
    /\ cur \in AgentSet
    /\ mode = "sched"
    /\ pc = "return"
    /\ agent_status[cur].last_run - next_run[cur] >= 2 * Cadence[cur]
    /\ cur \notin Range(pending)

\* Every limit of every registered provider is positive.
LimitsPositive ==
    \A n \in DOMAIN apis :
        apis[n].rate_limit_per_minute > 0 /\ apis[n].rate_limit_per_day > 0

\* C24 (as claimed): no registered provider has a limit of 0 or less, and
\* add_api with such a limit leaves apis and usage as they were.
C24_NonPositiveLimitRejected ==
    /\ []LimitsPositive
    /\ [][\A n \in ProviderSet, config \in AnyLimitConfigs :
            (AddApi(n, config)
               /\ (config.rate_limit_per_minute <= 0 \/ config.rate_limit_per_day <= 0))
            => RegistryUntouched]_vars

\* The counters of a usage record are all zero.
CountersZero(u) ==
    /\ u.requests_today = 0
    /\ u.requests_this_minute = 0
    /\ u.total_requests = 0
    /\ u.errors_today = 0

\* C30: add_api for a registered name puts the given configuration in place of
\* the old one and zeroes the name's usage counters, the configuration and the
\* usage record of every other name stay as they were, and every registered
\* provider always has a usage record.
C30_AddApiReplacesAndResets ==
    /\ [](\A n \in DOMAIN apis : n \in DOMAIN usage)
    /\ [][\A n \in ProviderSet, config \in AnyLimitConfigs :
            (n \in DOMAIN apis /\ AddApi(n, config)) =>
               /\ apis'[n] = config
               /\ CountersZero(usage'[n])
               /\ DOMAIN apis' = DOMAIN apis
               /\ \A m \in (DOMAIN apis) \ {n} : apis'[m] = apis[m]
               /\ \A m \in (DOMAIN usage) \ {n} : m \in DOMAIN usage' /\ usage'[m] = usage[m]]_vars

\* C30 witness: the last health report shows requests for a provider whose
\* counters are now zero, next to another provider whose requests are still
\* counted: the first has been registered again.
C30_Witness ==
    /\ health_status # <<>>
    /\ \E n \in DOMAIN apis, m \in DOMAIN apis :
          /\ n # m
          /\ n \in DOMAIN health_status
          /\ m \in DOMAIN health_status
          /\ health_status[n].requests_today > 0
          /\ CountersZero(usage[n])
          /\ health_status[m].requests_today > 0
          /\ usage[m].requests_today = health_status[m].requests_today

\* C25 (as claimed): once the record_request calls that ran concurrently have
\* all returned, requests_today and total_requests have grown by the number of
\* calls, and requests_this_minute is not below the number of them that fall
\* within the last minute.
C25_NoLostUpdate ==
    AllIdle =>
        /\ usage["email_a"].total_requests = ncalls
        /\ usage["email_a"].requests_today = ncalls
        /\ usage["email_a"].requests_this_minute >= Len(issued["email_a"])

\* C26 (as claimed): a dispatch call that chose a provider raises that
\* provider's requests_today and total_requests by exactly 1 by the time it
\* returns, whatever the response was, and a call that found no provider
\* leaves every usage record as it was.
C26_OneOutcomePerCall ==
    [][\A c \in Callers :
          /\ (call[c].pc = "request" /\ call'[c].pc = "idle") =>
                /\ usage'[call[c].api].total_requests = usage[call[c].api].total_requests + 1
                /\ usage'[call[c].api].requests_today = usage[call[c].api].requests_today + 1
          /\ (call[c].pc = "idle" /\ ncalls' = ncalls + 1 /\ call' = call) =>
                usage' = usage]_vars

\* C27: when run_agent_task is about to return, the agent's status is not
\* "active". Returning the task's result, the status is "idle", tasks_completed
\* is one more than at entry and last_success is the present time. Returning
\* None after an exception, error_count is one more than at entry, the status
\* is "disabled" if that reached the threshold and "error" otherwise, and
\* tasks_completed and last_success are what they were at entry.
C27_ReturnLeavesSettledStatus ==
    pc = "return" =>
        LET st == agent_status[cur]
        IN  /\ st.status # "active"
            /\ ret \in {"result", "None"}
            /\ ret = "result" =>
                  /\ st.status = "idle"
                  /\ st.tasks_completed = entry_done.tasks_completed + 1
                  /\ st.last_success = clock
            /\ ret = "None" =>
                  /\ st.error_count = entry_errors + 1
                  /\ st.status = IF st.error_count >= max_error_threshold
                                 THEN "disabled" ELSE "error"
                  /\ st.tasks_completed = entry_done.tasks_completed
                  /\ st.last_success = entry_done.last_success

\* C27 witness: a frame of an agent with a completed task behind it returns None
\* with the agent disabled at the threshold.
C27_Witness ==
    /\ pc = "return"
    /\ ret = "None"
    /\ agent_status[cur].status = "disabled"
    /\ entry_done.tasks_completed > 0
    /\ entry_done.last_success # NoTime

\* C28: an agent whose configuration has enabled = false is never inside
\* run_agent_task, by a tick or by a manual run, and its AgentStatus stays as it
\* was constructed: no run_<agent> of it has written to it.
C28_ConfigDisabledNeverInvoked ==
    \A a \in AgentSet :
        ~config_enabled[a] =>
           /\ cur # a
           /\ inflight[a] = 0
           /\ a \in agents => agent_status[a] = NewAgentStatus

\* C28 witness: every constructed agent is disabled by configuration, a tick
\* has run lead_scoring's job and a manual run has returned True.
C28_Witness ==
    /\ agents # {}
    /\ \A a \in agents : ~config_enabled[a]
    /\ manual_result = "True"
    /\ next_run["lead_scoring"] > Cadence["lead_scoring"]
    /\ agent_status["lead_scoring"] = NewAgentStatus

\* C29: a health_check or a collect_daily_metrics that finds the store
\* unreachable returns to its caller: run_pending goes on with the jobs that
\* are left, start() enters its loop, no AgentStatus changes and no shutdown is
\* requested.
C29_StoreFailureSwallowed ==
    [][/\ ((RunHealthCheckJob /\ health' = "failed")
              \/ (RunMetricsJob /\ daily_metrics' = "failed")) =>
             /\ agent_status' = agent_status
             /\ pc' = "run_pending"
             /\ pending' = Tail(pending)
             /\ ~shutdown_requested'
             /\ is_running'
       /\ (Start /\ health' = "failed") =>
             /\ agent_status' = agent_status
             /\ pc' = "loop"
             /\ is_running']_vars

\* C29 witness: in one run of the loop the health check and the metrics
\* collection have both failed on the store, and run_pending has jobs left to
\* run.
C29_Witness ==
    /\ pc = "run_pending"
    /\ health = "failed"
    /\ daily_metrics = "failed"
    /\ ~shutdown_requested
    /\ is_running
    /\ pending # <<>>

====
